---- MODULE Spec2Model ----
(***************************************************************************)
(* Asset Repair (erpnext/assets/doctype/asset_repair/asset_repair.py).     *)
(*                                                                         *)
(* One Asset Repair document is followed through its handlers: validate,   *)
(* before_submit, before_cancel and after_delete.  The linked Asset exists *)
(* twice, as in the code: asset_doc is the document object the handlers    *)
(* mutate in memory, asset_db is what the database holds (written by       *)
(* asset_doc.save(), db.set_value and set_status, read by frappe.get_doc). *)
(*                                                                         *)
(* Money amounts are whole numbers (minor units).  Dates are month numbers *)
(* (all dates fall on the same day of the month, so add_months is an       *)
(* addition).  total_number_of_depreciations is an exact fraction, because *)
(* the code updates it with Python's true division.                        *)
(***************************************************************************)
EXTENDS Integers, Sequences, FiniteSets, TLC

\* ------------------------------------------------------------ bounds
\* the most stock lines on a repair, and the most finance books on an Asset
MaxItems == 2
MaxRows == 2

\* ------------------------------------------------------ sample inputs
None == "None"
RepairStatuses == {"Pending", "Completed"}
\* (repair_cost, purchase_invoice) of a repair
CostAndInvoice == {<<0, None>>, <<100, "PINV-1">>, <<100, None>>}
AssetLifeIncreases == {0, 12, 14}
ValuationRates == {5}
Quantities == {1, 2}
Warehouses == {None, "Stores"}
\* (perpetual inventory enabled, default_expense_account) of the company
CompanySettings == {<<TRUE, None>>, <<FALSE, "Default Expense">>, <<FALSE, None>>}
\* what Asset.set_status can compute
AssetStatuses == {"Partially Depreciated"}
\* the schedule date in the final row of an active depreciation schedule (the
\* sample Asset's books all end on the same date)
LastScheduleDates == {30, 108, 200}
\* the largest accumulated_depreciation_amount of an active schedule
AccumulatedDepreciations == {400}
\* what the stock engine decides for a Stock Entry row: whether the row carries
\* a value (amount > 0), and its expense_account
StockRowOutcomes ==
    { [ valued |-> TRUE, expense_account |-> "Stock Adjustment" ],
      [ valued |-> TRUE, expense_account |-> None ],
      [ valued |-> FALSE, expense_account |-> None ] }

VARIABLES
    doc,            \* the Asset Repair document (self)
    asset_doc,      \* self.asset_doc, the Asset document object in memory
    asset_db,       \* the Asset as stored
    stock_entries,  \* the Stock Entry table
    gl_calls,       \* the calls made to general_ledger.make_gl_entries
    calls,          \* the other calls made to collaborating modules, in order
    company,        \* the company's inventory settings
    pc,             \* where the document is in its life
    error,          \* the exception that ended the last handler, or None
    pre             \* the stored finance books before the repair acted (history)

vars == <<doc, asset_doc, asset_db, stock_entries, gl_calls, calls, company, pc, error, pre>>

\* ------------------------------------------------------- arithmetic
RECURSIVE Gcd(_, _)
Gcd(a, b) == IF b = 0 THEN a ELSE Gcd(b, a % b)

Abs(x) == IF x < 0 THEN -x ELSE x

\* a fraction in lowest terms with a positive denominator
Frac(n, d) ==
    LET g == Gcd(Abs(n), d)
    IN [num |-> n \div g, den |-> d \div g]

Whole(n) == [num |-> n, den |-> 1]

FracAdd(x, y) == Frac(x.num * y.den + y.num * x.den, x.den * y.den)

FracSub(x, y) == Frac(x.num * y.den - y.num * x.den, x.den * y.den)

\* frappe.utils.cint of a number: int(float(x)), which truncates toward zero
cint(x) == IF x.num >= 0 THEN x.num \div x.den ELSE -((-x.num) \div x.den)

\* frappe.utils.add_months on month numbers
add_months(date, months) == date + months

RECURSIVE SumTotalValue(_)
SumTotalValue(items) ==
    IF items = <<>> THEN 0
    ELSE Head(items).total_value + SumTotalValue(Tail(items))

\* ------------------------------------------------------ initial state
\* the i-th finance book of the sample Asset
FinanceBook(i) ==
    [ finance_book |-> i,
      value_after_depreciation |-> 1000 * i,
      total_number_of_depreciations |-> Whole(10),
      frequency_of_depreciation |-> IF i % 2 = 1 THEN 12 ELSE 3,
      depreciation_start_date |-> 0,
      depreciation_method |-> IF i % 2 = 1 THEN "Straight Line" ELSE "Written Down Value",
      expected_value_after_useful_life |-> 100 ]

StockLines ==
    [ valuation_rate : ValuationRates, consumed_quantity : Quantities, total_value : {0} ]

StockLineLists == UNION { [1..n -> StockLines] : n \in 0..MaxItems }

NoFlags ==
    [ increase_in_asset_value_due_to_repair |-> FALSE,
      increase_in_asset_life |-> FALSE,
      ignore_validate_update_after_submit |-> FALSE ]

\* frappe.get_doc("Asset", self.asset): a fresh document object of the stored Asset
get_doc_Asset(adb) ==
    [ loaded |-> TRUE,
      status |-> adb.status,
      calculate_depreciation |-> adb.calculate_depreciation,
      number_of_depreciations_booked |-> adb.number_of_depreciations_booked,
      finance_books |-> adb.finance_books,
      to_date |-> 0,
      flags |-> NoFlags ]

NotLoaded ==
    [ loaded |-> FALSE,
      status |-> None,
      calculate_depreciation |-> FALSE,
      number_of_depreciations_booked |-> 0,
      finance_books |-> <<>>,
      to_date |-> 0,
      flags |-> NoFlags ]

Init ==
    /\ \E rs \in RepairStatuses, sc \in BOOLEAN, cap \in BOOLEAN, ci \in CostAndInvoice,
          life \in AssetLifeIncreases, items \in StockLineLists, wh \in Warehouses :
          doc = [ name |-> "ACC-ASR-1",
                  docstatus |-> 0,
                  repair_status |-> rs,
                  stock_consumption |-> sc,
                  capitalize_repair_cost |-> cap,
                  repair_cost |-> ci[1],
                  purchase_invoice |-> ci[2],
                  increase_in_asset_life |-> life,
                  stock_items |-> items,
                  warehouse |-> wh,
                  total_repair_cost |-> 0,
                  stock_entry |-> None ]
    /\ \E cd \in BOOLEAN, n \in 1..MaxRows :
          asset_db = [ status |-> "Submitted",
                       calculate_depreciation |-> cd,
                       number_of_depreciations_booked |-> 0,
                       finance_books |-> [i \in 1..n |-> FinanceBook(i)] ]
    /\ asset_doc = NotLoaded
    /\ stock_entries = <<>>
    /\ gl_calls = <<>>
    /\ calls = <<>>
    /\ \E cs \in CompanySettings :
          company = [ perpetual_inventory |-> cs[1], default_expense_account |-> cs[2] ]
    /\ pc = "draft"
    /\ error = None
    /\ pre = asset_db.finance_books

\* ------------------------------------------------------------ validate
set_stock_items_cost(items) ==
    [ i \in DOMAIN items |->
        [ items[i] EXCEPT !.total_value =
            items[i].valuation_rate * items[i].consumed_quantity ] ]

\* (variant: the stock lines are summed whether or not stock_consumption is set)
get_total_value_ignoring_flag(d) == SumTotalValue(d.stock_items)

get_total_value_of_stock_consumed(d) ==
    IF d.stock_consumption THEN SumTotalValue(d.stock_items) ELSE 0

calculate_total_repair_cost(d) ==
    [ d EXCEPT !.total_repair_cost = d.repair_cost + get_total_value_of_stock_consumed(d) ]

\* validate, with update_status: a Pending repair writes the status "Out of
\* Order" to the stored Asset; otherwise Asset.set_status computes a status and
\* sets it on the document and in the database.
Validate ==
    /\ pc = "draft"
    /\ \E st \in AssetStatuses :
         LET a == get_doc_Asset(asset_db)
         IN IF doc.repair_status = "Pending"
            THEN /\ asset_doc' = a
                 /\ asset_db' = [asset_db EXCEPT !.status = "Out of Order"]
            ELSE /\ asset_doc' = [a EXCEPT !.status = st]
                 /\ asset_db' = [asset_db EXCEPT !.status = st]
    /\ doc' = calculate_total_repair_cost(
                 IF doc.stock_items # <<>>
                 THEN [doc EXCEPT !.stock_items = set_stock_items_cost(doc.stock_items)]
                 ELSE doc)
    /\ pc' = "saved"
    /\ UNCHANGED <<stock_entries, gl_calls, calls, company, error, pre>>

\* -------------------------------------------------- handler plumbing
\* The state a handler works on.  A handler that raises stops where it is:
\* what it had already done stays done in this state (undoing it is left to
\* the caller's database transaction, which is outside this file).
Here == [ doc |-> doc, asset_doc |-> asset_doc, asset_db |-> asset_db,
          stock_entries |-> stock_entries, gl_calls |-> gl_calls,
          calls |-> calls, error |-> None ]

Raise(s, message) == [s EXCEPT !.error = message]

\* ------------------------------------------------------ the checks
\* each returns the title or message of the error raised, or None
\* (variant: the status check lets a Pending repair through)
check_repair_status_never_raises(d) == None

check_repair_status(d) ==
    IF d.repair_status = "Pending" THEN "Please update Repair Status." ELSE None

\* (variant: the warehouse is checked before the stock lines)
check_warehouse_before_items(d) ==
    IF d.warehouse = None THEN "Missing Warehouse"
    ELSE IF d.stock_items = <<>> THEN "Missing Items"
    ELSE None

check_for_stock_items_and_warehouse(d) ==
    IF d.stock_items = <<>> THEN "Missing Items"
    ELSE IF d.warehouse = None THEN "Missing Warehouse"
    ELSE None

\* ------------------------------------------------------ asset value
increase_asset_value(d, a) ==
    LET total_value_of_stock_consumed == get_total_value_of_stock_consumed(d)
        inc(row) ==
            [ row EXCEPT !.value_after_depreciation =
                @ + total_value_of_stock_consumed
                  + (IF d.capitalize_repair_cost THEN d.repair_cost ELSE 0) ]
    IN IF a.calculate_depreciation
       THEN [ a EXCEPT !.finance_books = [ i \in DOMAIN @ |-> inc(@[i]) ] ]
       ELSE a

\* (variant: the repair cost is not taken back out)
decrease_asset_value_stock_only(d, a) ==
    LET total_value_of_stock_consumed == get_total_value_of_stock_consumed(d)
        dec(row) ==
            [ row EXCEPT !.value_after_depreciation = @ - total_value_of_stock_consumed ]
    IN IF a.calculate_depreciation
       THEN [ a EXCEPT !.finance_books = [ i \in DOMAIN @ |-> dec(@[i]) ] ]
       ELSE a

decrease_asset_value(d, a) ==
    LET total_value_of_stock_consumed == get_total_value_of_stock_consumed(d)
        dec(row) ==
            [ row EXCEPT !.value_after_depreciation =
                @ - total_value_of_stock_consumed
                  - (IF d.capitalize_repair_cost THEN d.repair_cost ELSE 0) ]
    IN IF a.calculate_depreciation
       THEN [ a EXCEPT !.finance_books = [ i \in DOMAIN @ |-> dec(@[i]) ] ]
       ELSE a

\* ------------------------------------------------------ stock entry
\* (variant: the Material Issue is inserted but never submitted)
decrease_stock_quantity_insert_only(s, engine) ==
    LET d == s.doc
        name == "MAT-STE-1"
        row(i) ==
            [ s_warehouse |-> d.warehouse,
              qty |-> d.stock_items[i].consumed_quantity,
              basic_rate |-> d.stock_items[i].valuation_rate,
              amount |-> IF engine[i].valued
                         THEN d.stock_items[i].consumed_quantity * d.stock_items[i].valuation_rate
                         ELSE 0,
              expense_account |-> engine[i].expense_account ]
        stock_entry ==
            [ name |-> name, docstatus |-> 0,
              items |-> [ i \in DOMAIN d.stock_items |-> row(i) ] ]
    IN [ s EXCEPT !.stock_entries = Append(@, stock_entry),
                  !.calls = Append(@, "Stock Entry.insert"),
                  !.doc.stock_entry = name ]

\* decrease_stock_quantity: a Material Issue with one row per stock line is
\* inserted and submitted, and its name stored on the repair.  engine[i] is what
\* the stock engine decides for row i: whether the row carries a value, and
\* its expense account.
decrease_stock_quantity(s, engine) ==
    LET d == s.doc
        name == "MAT-STE-1"
        row(i) ==
            [ s_warehouse |-> d.warehouse,
              qty |-> d.stock_items[i].consumed_quantity,
              basic_rate |-> d.stock_items[i].valuation_rate,
              amount |-> IF engine[i].valued
                         THEN d.stock_items[i].consumed_quantity * d.stock_items[i].valuation_rate
                         ELSE 0,
              expense_account |-> engine[i].expense_account ]
        stock_entry ==
            [ name |-> name, docstatus |-> 1,
              items |-> [ i \in DOMAIN d.stock_items |-> row(i) ] ]
    IN [ s EXCEPT !.stock_entries = Append(@, stock_entry),
                  !.calls = @ \o <<"Stock Entry.insert", "Stock Entry.submit">>,
                  !.doc.stock_entry = name ]

\* frappe.get_doc("Stock Entry", name): the stored entries of that name
get_doc_StockEntry(ses, name) == SelectSeq(ses, LAMBDA e : e.name = name)

\* (variant: cancelling the Stock Entry also clears the repair's link to it)
increase_stock_quantity_and_unlink(s) ==
    IF s.doc.stock_entry # None
    THEN [ s EXCEPT !.stock_entries =
                      [ i \in DOMAIN @ |->
                          IF @[i].name = s.doc.stock_entry
                          THEN [ @[i] EXCEPT !.docstatus = 2 ] ELSE @[i] ],
                    !.calls = Append(@, "Stock Entry.cancel"),
                    !.doc.stock_entry = None ]
    ELSE s

increase_stock_quantity(s) ==
    IF s.doc.stock_entry # None
    THEN [ s EXCEPT !.stock_entries =
                      [ i \in DOMAIN @ |->
                          IF @[i].name = s.doc.stock_entry
                          THEN [ @[i] EXCEPT !.docstatus = 2 ] ELSE @[i] ],
                    !.calls = Append(@, "Stock Entry.cancel") ]
    ELSE s

\* --------------------------------------------------- ledger entries
\* get_asset_account("fixed_asset_account", ...)
fixed_asset_account_of(d) == "Fixed Asset"

\* the expense_account of the first row of the linked Purchase Invoice
pi_expense_account_of(d) == "Repair Expense"

\* get_gl_dict of the fields the code passes (posting_date, cost_center and
\* company are the same on every entry and left out)
get_gl_dict(d, account, debit, credit, against, against_voucher_type, against_voucher) ==
    [ account |-> account, debit |-> debit, credit |-> credit, against |-> against,
      voucher_type |-> "Asset Repair", voucher_no |-> d.name,
      against_voucher_type |-> against_voucher_type,
      against_voucher |-> against_voucher ]

\* The builders return [error, gl_entries]: the list as extended, or the error
\* raised while extending it.

\* (variant: the expense account is credited with total_repair_cost)
get_gl_entries_crediting_total(d, gl_entries, fixed_asset_account) ==
    IF d.repair_cost <= 0 THEN [ error |-> None, gl_entries |-> gl_entries ]
    ELSE IF d.purchase_invoice = None
    THEN [ error |-> "DoesNotExistError", gl_entries |-> gl_entries ]
    ELSE LET pi_expense_account == pi_expense_account_of(d)
         IN [ error |-> None,
              gl_entries |-> gl_entries \o
                << get_gl_dict(d, fixed_asset_account, d.repair_cost, 0,
                               pi_expense_account, "Purchase Invoice", d.purchase_invoice),
                   get_gl_dict(d, pi_expense_account, 0, d.total_repair_cost,
                               fixed_asset_account, None, None) >> ]

get_gl_entries_for_repair_cost(d, gl_entries, fixed_asset_account) ==
    IF d.repair_cost <= 0 THEN [ error |-> None, gl_entries |-> gl_entries ]
    ELSE IF d.purchase_invoice = None
    THEN [ error |-> "DoesNotExistError", gl_entries |-> gl_entries ]
    ELSE LET pi_expense_account == pi_expense_account_of(d)
         IN [ error |-> None,
              gl_entries |-> gl_entries \o
                << get_gl_dict(d, fixed_asset_account, d.repair_cost, 0,
                               pi_expense_account, "Purchase Invoice", d.purchase_invoice),
                   get_gl_dict(d, pi_expense_account, 0, d.repair_cost,
                               fixed_asset_account, None, None) >> ]

RECURSIVE ConsumedItemEntries(_, _, _, _)
ConsumedItemEntries(d, items, fixed_asset_account, default_expense_account) ==
    IF items = <<>> THEN <<>>
    ELSE LET item == Head(items)
             account == IF item.expense_account # None
                        THEN item.expense_account ELSE default_expense_account
             pair == IF item.amount > 0
                     THEN << get_gl_dict(d, account, 0, item.amount,
                                         fixed_asset_account, None, None),
                             get_gl_dict(d, fixed_asset_account, item.amount, 0,
                                         account, "Stock Entry", d.stock_entry) >>
                     ELSE <<>>
         IN pair \o ConsumedItemEntries(d, Tail(items), fixed_asset_account,
                                        default_expense_account)

get_gl_entries_for_consumed_items(d, ses, co, gl_entries, fixed_asset_account) ==
    IF ~(d.stock_consumption /\ d.stock_items # <<>>)
    THEN [ error |-> None, gl_entries |-> gl_entries ]
    ELSE LET found == get_doc_StockEntry(ses, d.stock_entry)
             default_expense_account ==
                 IF ~co.perpetual_inventory THEN co.default_expense_account ELSE None
         IN IF found = <<>>
            THEN [ error |-> "DoesNotExistError", gl_entries |-> gl_entries ]
            ELSE IF ~co.perpetual_inventory /\ default_expense_account = None
            THEN [ error |-> "Please set default Expense Account in Company",
                   gl_entries |-> gl_entries ]
            ELSE [ error |-> None,
                   gl_entries |-> gl_entries \o
                       ConsumedItemEntries(d, found[1].items, fixed_asset_account,
                                           default_expense_account) ]

get_gl_entries(d, ses, co) ==
    LET fixed_asset_account == fixed_asset_account_of(d)
        r == get_gl_entries_for_repair_cost(d, <<>>, fixed_asset_account)
    IN IF r.error # None THEN r
       ELSE get_gl_entries_for_consumed_items(d, ses, co, r.gl_entries, fixed_asset_account)

\* make_gl_entries: builds the entries and hands them, with the cancel flag, to
\* the ledger-posting function
make_gl_entries(s, co, cancel) ==
    IF s.doc.total_repair_cost > 0
    THEN LET r == get_gl_entries(s.doc, s.stock_entries, co)
         IN IF r.error # None THEN Raise(s, r.error)
            ELSE [ s EXCEPT !.gl_calls =
                              Append(@, [ gl_entries |-> r.gl_entries, cancel |-> cancel ]) ]
    ELSE s

\* --------------------------------------------- depreciation schedule
\* calculate_last_schedule_date on finance book i; last_schedule_date is the
\* schedule date in the final row of the book's active schedule
calculate_last_schedule_date(a, i, extra_months, last_schedule_date) ==
    LET row == a.finance_books[i]
        number_of_pending_depreciations ==
            cint(row.total_number_of_depreciations) - a.number_of_depreciations_booked
        to_date == add_months(last_schedule_date, extra_months)
        schedule_date ==
            add_months(row.depreciation_start_date,
                       number_of_pending_depreciations * row.frequency_of_depreciation)
    IN [ a EXCEPT !.flags.increase_in_asset_life = TRUE,
                  !.to_date = to_date,
                  !.finance_books[i].total_number_of_depreciations =
                      IF to_date > schedule_date THEN FracAdd(@, Whole(1)) ELSE @ ]

\* the change of total_number_of_depreciations for a change of the asset's life:
\* increase_in_asset_life / frequency_of_depreciation, Python's true division
life_in_depreciations(increase_in_asset_life, frequency_of_depreciation) ==
    Frac(increase_in_asset_life, frequency_of_depreciation)

RECURSIVE ModifyFrom(_, _, _, _)
ModifyFrom(d, a, last, i) ==
    IF i > Len(a.finance_books) THEN a
    ELSE LET row == a.finance_books[i]
             a1 == [ a EXCEPT !.finance_books[i].total_number_of_depreciations =
                                FracAdd(@, life_in_depreciations(d.increase_in_asset_life,
                                                                 row.frequency_of_depreciation)),
                              !.flags.increase_in_asset_life = FALSE ]
             extra_months == d.increase_in_asset_life % row.frequency_of_depreciation
             a2 == IF extra_months # 0
                   THEN calculate_last_schedule_date(a1, i, extra_months, last[i])
                   ELSE a1
         IN ModifyFrom(d, a2, last, i + 1)

\* last[i] is what get_depr_schedule returns as the last schedule date of book i
modify_depreciation_schedule(d, a, last) == ModifyFrom(d, a, last, 1)

calculate_last_schedule_date_before_modification(a, i, extra_months, last_schedule_date) ==
    LET row == a.finance_books[i]
        number_of_pending_depreciations ==
            cint(row.total_number_of_depreciations) - a.number_of_depreciations_booked
        to_date == add_months(last_schedule_date, -extra_months)
        schedule_date ==
            add_months(row.depreciation_start_date,
                       (number_of_pending_depreciations - 1) * row.frequency_of_depreciation)
    IN [ a EXCEPT !.flags.increase_in_asset_life = TRUE,
                  !.to_date = to_date,
                  !.finance_books[i].total_number_of_depreciations =
                      IF to_date < schedule_date THEN FracSub(@, Whole(1)) ELSE @ ]

RECURSIVE RevertFrom(_, _, _, _)
RevertFrom(d, a, last, i) ==
    IF i > Len(a.finance_books) THEN a
    ELSE LET row == a.finance_books[i]
             a1 == [ a EXCEPT !.finance_books[i].total_number_of_depreciations =
                                FracSub(@, life_in_depreciations(d.increase_in_asset_life,
                                                                 row.frequency_of_depreciation)),
                              !.flags.increase_in_asset_life = FALSE ]
             extra_months == d.increase_in_asset_life % row.frequency_of_depreciation
             a2 == IF extra_months # 0
                   THEN calculate_last_schedule_date_before_modification(
                            a1, i, extra_months, last[i])
                   ELSE a1
         IN RevertFrom(d, a2, last, i + 1)

revert_depreciation_schedule_on_cancellation(d, a, last) == RevertFrom(d, a, last, 1)

\* update_asset_expected_value_after_useful_life; accumulated is the largest
\* accumulated_depreciation_amount of the book's active schedule
update_asset_expected_value_after_useful_life(s, accumulated) ==
    LET declining(row) ==
            row.depreciation_method \in {"Written Down Value", "Double Declining Balance"}
        upd(row) ==
            IF declining(row)
            THEN [ row EXCEPT !.expected_value_after_useful_life =
                                row.value_after_depreciation - accumulated ]
            ELSE row
        books == SelectSeq(s.asset_doc.finance_books, declining)
    IN [ s EXCEPT !.asset_doc.finance_books = [ i \in DOMAIN @ |-> upd(@[i]) ],
                  !.calls = @ \o [ i \in DOMAIN books |-> "Asset Depreciation Schedule.db_set" ] ]

\* asset_doc.save(): the document is written to the database.
\* total_number_of_depreciations is an Int field and is stored as cint of it.
Asset_save(s) ==
    LET stored(row) ==
            [ row EXCEPT !.total_number_of_depreciations = Whole(cint(@)) ]
    IN [ s EXCEPT !.asset_db.status = s.asset_doc.status,
                  !.asset_db.finance_books =
                      [ i \in DOMAIN s.asset_doc.finance_books |->
                          stored(s.asset_doc.finance_books[i]) ],
                  !.calls = Append(@, "Asset.save") ]

\* the common tail of before_submit and before_cancel: the active schedules are
\* regenerated, the expected values recomputed and the Asset saved
regenerate_and_save(s, accumulated) ==
    LET s1 == [ s EXCEPT !.asset_doc.flags.ignore_validate_update_after_submit = TRUE,
                         !.calls = Append(@,
                            "make_new_active_asset_depr_schedules_and_cancel_current_ones") ]
        s2 == IF s1.asset_doc.calculate_depreciation
              THEN update_asset_expected_value_after_useful_life(s1, accumulated)
              ELSE s1
    IN Asset_save(s2)

\* the condition under which before_submit and before_cancel touch the Asset,
\* the stock and the ledger at all
\* (variant: the handlers go on without either flag)
always_touch_asset(d) == TRUE

stock_consumption_or_capitalize(d) == d.stock_consumption \/ d.capitalize_repair_cost

\* ------------------------------------------------------ before_submit
before_submit(s, co, engine, last, accumulated) ==
    IF check_repair_status(s.doc) # None THEN Raise(s, check_repair_status(s.doc))
    ELSE
    LET d == s.doc
        s1 == [ s EXCEPT !.asset_doc.flags.increase_in_asset_value_due_to_repair = FALSE ]
    IN IF ~stock_consumption_or_capitalize(d) THEN s1
       ELSE
       LET s2 == [ s1 EXCEPT !.asset_doc =
                     increase_asset_value(d,
                        [ @ EXCEPT !.flags.increase_in_asset_value_due_to_repair = TRUE ]) ]
           s3 == IF d.stock_consumption
                 THEN IF check_for_stock_items_and_warehouse(d) # None
                      THEN Raise(s2, check_for_stock_items_and_warehouse(d))
                      ELSE decrease_stock_quantity(s2, engine)
                 ELSE s2
           s4 == IF s3.error = None /\ d.capitalize_repair_cost
                 THEN LET g == make_gl_entries(s3, co, FALSE)
                      IN IF g.error = None /\ g.asset_doc.calculate_depreciation
                                           /\ d.increase_in_asset_life # 0
                         THEN [ g EXCEPT !.asset_doc =
                                           modify_depreciation_schedule(g.doc, @, last) ]
                         ELSE g
                 ELSE s3
       IN IF s4.error # None THEN s4 ELSE regenerate_and_save(s4, accumulated)

\* ------------------------------------------------------ before_cancel
before_cancel(s, co, last, accumulated) ==
    LET d == s.doc
        s1 == [ s EXCEPT !.asset_doc = get_doc_Asset(s.asset_db) ]
    IN IF ~stock_consumption_or_capitalize(d) THEN s1
       ELSE
       LET s2 == [ s1 EXCEPT !.asset_doc =
                     decrease_asset_value(d,
                        [ @ EXCEPT !.flags.increase_in_asset_value_due_to_repair = TRUE ]) ]
           s3 == IF d.stock_consumption THEN increase_stock_quantity(s2) ELSE s2
           s4 == IF d.capitalize_repair_cost
                 THEN LET g == make_gl_entries(s3, co, TRUE)
                      IN IF g.error # None THEN g
                         ELSE LET u == [ g EXCEPT !.doc.stock_entry = None ]
                              IN IF u.asset_doc.calculate_depreciation
                                    /\ d.increase_in_asset_life # 0
                                 THEN [ u EXCEPT !.asset_doc =
                                          revert_depreciation_schedule_on_cancellation(
                                              u.doc, @, last) ]
                                 ELSE u
                 ELSE s3
       IN IF s4.error # None THEN s4 ELSE regenerate_and_save(s4, accumulated)

\* ------------------------------------------------------------ actions
StockEngine(n) == [ 1..n -> StockRowOutcomes ]

ScheduleDates(n) == { [ i \in 1..n |-> date ] : date \in LastScheduleDates }

Commit(r, docstatus, done) ==
    /\ doc' = IF r.error = None THEN [ r.doc EXCEPT !.docstatus = docstatus ] ELSE r.doc
    /\ asset_doc' = r.asset_doc
    /\ asset_db' = r.asset_db
    /\ stock_entries' = r.stock_entries
    /\ gl_calls' = r.gl_calls
    /\ calls' = r.calls
    /\ error' = r.error
    /\ pc' = IF r.error = None THEN done ELSE "failed"

\* submit of a saved draft: validate has run and loaded self.asset_doc
BeforeSubmit ==
    /\ pc = "saved"
    /\ \E engine \in StockEngine(Len(doc.stock_items)),
          last \in ScheduleDates(Len(asset_doc.finance_books)),
          accumulated \in AccumulatedDepreciations :
          Commit(before_submit(Here, company, engine, last, accumulated), 1, "submitted")
    /\ UNCHANGED <<company, pre>>

BeforeCancel ==
    /\ pc = "submitted"
    /\ \E last \in ScheduleDates(Len(asset_db.finance_books)),
          accumulated \in AccumulatedDepreciations :
          Commit(before_cancel(Here, company, last, accumulated), 2, "cancelled")
    /\ UNCHANGED <<company, pre>>

\* after_delete of a draft or cancelled repair: the Asset recomputes its status
AfterDelete ==
    /\ pc \in {"saved", "cancelled"}
    /\ \E st \in AssetStatuses : asset_db' = [ asset_db EXCEPT !.status = st ]
    /\ pc' = "deleted"
    /\ UNCHANGED <<doc, asset_doc, stock_entries, gl_calls, calls, company, error, pre>>

Next == Validate \/ BeforeSubmit \/ BeforeCancel \/ AfterDelete

Spec == Init /\ [][Next]_vars

\* ------------------------------------------------------------ claims
\* before_submit has run and raised
SubmitFailed == pc = "failed" /\ doc.docstatus = 0

\* before_cancel has run (to its end, or raised)
CancelRan == doc.docstatus = 2 \/ (pc = "failed" /\ doc.docstatus = 1)

\* C1: a repair whose repair_status is Pending is never submitted, whatever
\* its flags, stock lines, warehouse and costs: before_submit ends in the error
\* of check_repair_status.
C1_PendingNeverSubmitted ==
    doc.repair_status = "Pending" =>
        /\ doc.docstatus = 0
        /\ pc \notin {"submitted", "cancelled"}
        /\ pc = "failed" => error = "Please update Repair Status."

C1_Witness ==
    /\ SubmitFailed
    /\ doc.repair_status = "Pending"
    /\ doc.stock_consumption /\ doc.capitalize_repair_cost
    /\ doc.stock_items # <<>> /\ doc.warehouse # None
    /\ error = "Please update Repair Status."

\* C2: a repair that is not Pending and has stock_consumption set is not
\* submitted without stock lines (the error is Missing Items, also when the
\* warehouse is missing too) nor with stock lines but without a warehouse (the
\* error is Missing Warehouse), whatever capitalize_repair_cost is.
C2_MissingItemsOrWarehouse ==
    (doc.repair_status # "Pending" /\ doc.stock_consumption) =>
        /\ doc.stock_items = <<>> =>
              /\ doc.docstatus = 0
              /\ pc = "failed" => error = "Missing Items"
        /\ (doc.stock_items # <<>> /\ doc.warehouse = None) =>
              /\ doc.docstatus = 0
              /\ pc = "failed" => error = "Missing Warehouse"

C2_Witness ==
    /\ SubmitFailed
    /\ doc.repair_status # "Pending"
    /\ doc.stock_consumption
    /\ doc.stock_items = <<>> /\ doc.warehouse = None
    /\ error = "Missing Items"

ValidationErrors ==
    { "Please update Repair Status.", "Missing Items", "Missing Warehouse",
      "Please set default Expense Account in Company" }

\* the finance books as increase_asset_value leaves them in memory
BooksAfterIncrease ==
    increase_asset_value(doc, [ asset_doc EXCEPT !.finance_books = pre ]).finance_books

\* C3 as stated: when before_submit ends in a validation error, no Stock Entry
\* exists, nothing was posted to the ledger, the stock_entry link is unset and
\* the Asset's finance books hold their pre-submit values.
C3_NothingDoneAtFailure ==
    (SubmitFailed /\ error \in ValidationErrors) =>
        /\ stock_entries = <<>>
        /\ gl_calls = <<>>
        /\ doc.stock_entry = None
        /\ asset_db.finance_books = pre

\* C3 as amended: when before_submit ends in a validation error, nothing was
\* posted to the ledger, the Asset was not saved (its stored finance books
\* hold their pre-submit values) and total_number_of_depreciations is untouched
\* in memory too.  After the repair-status error the Asset in memory is
\* untouched; after the other errors its value_after_depreciation has already
\* been increased.  After the repair-status, missing-items and missing-
\* warehouse errors no Stock Entry exists and the link is unset; after the
\* missing default expense account error the Stock Entry has already been
\* inserted and submitted and the link set.
C3_FailedValidation ==
    (SubmitFailed /\ error \in ValidationErrors) =>
        /\ gl_calls = <<>>
        /\ \A i \in DOMAIN calls : calls[i] \in {"Stock Entry.insert", "Stock Entry.submit"}
        /\ asset_db.finance_books = pre
        /\ asset_doc.finance_books =
              IF error = "Please update Repair Status." THEN pre ELSE BooksAfterIncrease
        /\ error # "Please set default Expense Account in Company" =>
              /\ stock_entries = <<>>
              /\ doc.stock_entry = None
        /\ error = "Please set default Expense Account in Company" =>
              /\ Len(stock_entries) = 1
              /\ stock_entries[1].docstatus = 1
              /\ doc.stock_entry = stock_entries[1].name
              /\ calls = <<"Stock Entry.insert", "Stock Entry.submit">>

C3_Witness ==
    /\ SubmitFailed
    /\ error = "Please set default Expense Account in Company"
    /\ Len(stock_entries) = 1
    /\ asset_doc.calculate_depreciation
    /\ asset_doc.finance_books # pre

RECURSIVE SumDebit(_)
SumDebit(entries) ==
    IF entries = <<>> THEN 0 ELSE Head(entries).debit + SumDebit(Tail(entries))

RECURSIVE SumCredit(_)
SumCredit(entries) ==
    IF entries = <<>> THEN 0 ELSE Head(entries).credit + SumCredit(Tail(entries))

\* one entry debits and the other credits the same positive amount
DebitCreditPair(e1, e2) ==
    \/ e1.debit > 0 /\ e1.credit = 0 /\ e2.debit = 0 /\ e2.credit = e1.debit
    \/ e1.credit > 0 /\ e1.debit = 0 /\ e2.credit = 0 /\ e2.debit = e1.credit

Balanced(entries) ==
    /\ SumDebit(entries) = SumCredit(entries)
    /\ Len(entries) % 2 = 0
    /\ \A k \in 1..(Len(entries) \div 2) : DebitCreditPair(entries[2 * k - 1], entries[2 * k])

\* C4: every list get_gl_entries returns, for the repair and the Stock Entry
\* of any reachable state and in every call made to the ledger, has equal
\* debit and credit sums and consists of adjacent debit/credit pairs of the
\* same amount.
C4_EntriesBalanced ==
    /\ \A k \in DOMAIN gl_calls : Balanced(gl_calls[k].gl_entries)
    /\ LET r == get_gl_entries(doc, stock_entries, company)
       IN r.error = None => Balanced(r.gl_entries)

C4_Witness ==
    /\ pc = "submitted"
    /\ Len(gl_calls) = 1
    /\ Len(gl_calls[1].gl_entries) = 6
    /\ SumDebit(gl_calls[1].gl_entries) > doc.repair_cost

\* C5: after before_submit and before_cancel (increase_asset_value, then
\* decrease_asset_value) every finance book's value_after_depreciation is what
\* it was before the repair, stored and in memory, for every combination of
\* the flags; and decrease_asset_value undoes increase_asset_value on the
\* Asset of every reachable state.
C5_ValueRestored ==
    /\ doc.docstatus = 2 =>
          \A i \in DOMAIN pre :
              /\ asset_db.finance_books[i].value_after_depreciation
                    = pre[i].value_after_depreciation
              /\ asset_doc.finance_books[i].value_after_depreciation
                    = pre[i].value_after_depreciation
    /\ asset_doc.loaded =>
          \A i \in DOMAIN asset_doc.finance_books :
              decrease_asset_value(doc, increase_asset_value(doc, asset_doc))
                      .finance_books[i].value_after_depreciation
                  = asset_doc.finance_books[i].value_after_depreciation

C5_Witness ==
    /\ pc = "cancelled"
    /\ doc.stock_consumption /\ doc.capitalize_repair_cost
    /\ doc.repair_cost > 0 /\ Len(doc.stock_items) = 2
    /\ asset_doc.calculate_depreciation
    /\ asset_db.finance_books[1].value_after_depreciation = pre[1].value_after_depreciation
    /\ increase_asset_value(doc, asset_doc).finance_books[1].value_after_depreciation
          > pre[1].value_after_depreciation + doc.repair_cost

RECURSIVE SumRateTimesQuantity(_)
SumRateTimesQuantity(items) ==
    IF items = <<>> THEN 0
    ELSE Head(items).valuation_rate * Head(items).consumed_quantity
            + SumRateTimesQuantity(Tail(items))

\* C6: once validate has run, every stock line's total_value is valuation_rate
\* x consumed_quantity and total_repair_cost is repair_cost plus the sum of
\* those when stock_consumption is set, and repair_cost otherwise.
C6_TotalRepairCost ==
    pc # "draft" =>
        /\ \A i \in DOMAIN doc.stock_items :
              doc.stock_items[i].total_value =
                  doc.stock_items[i].valuation_rate * doc.stock_items[i].consumed_quantity
        /\ doc.total_repair_cost =
              IF doc.stock_consumption
              THEN doc.repair_cost + SumRateTimesQuantity(doc.stock_items)
              ELSE doc.repair_cost

C6_Witness ==
    /\ pc = "saved"
    /\ doc.stock_consumption
    /\ Len(doc.stock_items) = 2
    /\ doc.repair_cost = 100
    /\ doc.total_repair_cost > 100

\* before_submit ran modify_depreciation_schedule
ScheduleModified ==
    /\ doc.capitalize_repair_cost
    /\ doc.increase_in_asset_life > 0
    /\ asset_doc.calculate_depreciation

\* C7: after modify_depreciation_schedule each finance book's
\* total_number_of_depreciations is a whole number, and it has grown by
\* increase_in_asset_life // frequency_of_depreciation (by one more where the
\* remainder correction applied).
C7_FloorChange ==
    (pc = "submitted" /\ ScheduleModified) =>
        \A i \in DOMAIN pre :
            LET was == pre[i].total_number_of_depreciations.num
                whole == doc.increase_in_asset_life \div pre[i].frequency_of_depreciation
                now == asset_doc.finance_books[i].total_number_of_depreciations
            IN /\ now.den = 1
               /\ now.num \in {was + whole, was + whole + 1}

\* C8: after before_submit and before_cancel of a repair that modified the
\* depreciation schedule, each finance book's total_number_of_depreciations is
\* what it was before the submit.
C8_CancelRestoresDepreciations ==
    (doc.docstatus = 2 /\ ScheduleModified) =>
        \A i \in DOMAIN pre :
            asset_db.finance_books[i].total_number_of_depreciations
                = pre[i].total_number_of_depreciations

\* C9: a repair with neither stock_consumption nor capitalize_repair_cost
\* changes nothing: the finance books are as before, stored and in memory, no
\* Stock Entry exists, nothing is posted to the ledger, and no schedule is
\* regenerated nor the Asset saved (no call to a collaborator is made at all).
C9_NoFlagsNoMutation ==
    (~doc.stock_consumption /\ ~doc.capitalize_repair_cost) =>
        /\ asset_db.finance_books = pre
        /\ asset_doc.loaded => asset_doc.finance_books = pre
        /\ stock_entries = <<>>
        /\ doc.stock_entry = None
        /\ gl_calls = <<>>
        /\ calls = <<>>

C9_Witness ==
    /\ pc = "cancelled"
    /\ ~doc.stock_consumption /\ ~doc.capitalize_repair_cost
    /\ doc.repair_cost > 0 /\ doc.increase_in_asset_life > 0
    /\ asset_doc.calculate_depreciation

\* C10: for a repair with capitalize_repair_cost and total_repair_cost > 0,
\* before_submit posts one entry list with cancel = False, and before_cancel
\* passes the same list with cancel = True; the stock_entry link is cleared
\* only after that list is built.
C10_CancelPostsSameEntries ==
    (doc.capitalize_repair_cost /\ doc.total_repair_cost > 0) =>
        /\ pc = "submitted" =>
              /\ Len(gl_calls) = 1
              /\ ~gl_calls[1].cancel
        /\ CancelRan =>
              /\ Len(gl_calls) = 2
              /\ ~gl_calls[1].cancel
              /\ gl_calls[2].cancel
              /\ gl_calls[2].gl_entries = gl_calls[1].gl_entries
              /\ doc.stock_entry = None

C10_Witness ==
    /\ pc = "cancelled"
    /\ Len(gl_calls) = 2
    /\ doc.stock_entry = None
    /\ \E k \in DOMAIN gl_calls[2].gl_entries :
          /\ gl_calls[2].gl_entries[k].against_voucher_type = "Stock Entry"
          /\ gl_calls[2].gl_entries[k].against_voucher = "MAT-STE-1"
====
